---- MODULE Spec2Model ----
(***************************************************************************)
(* Strategy combinators of hypothesis/searchstrategy/strategies.py:        *)
(* one_of_strategies, SearchStrategy.map / filter / __or__, and the        *)
(* do_draw methods of OneOfStrategy, MappedSearchStrategy and              *)
(* FilteredStrategy, run against a per-attempt data (entropy) source.      *)
(***************************************************************************)
EXTENDS Integers, Sequences, FiniteSets, TLC

VARIABLES
    heap,    \* the strategy objects that exist, by identity (position)
    ret,     \* outcome of the last construction operation
    root,    \* root[a]: the strategy attempt a generates from (0: none)
    data,    \* data[a]: the entropy source owned by attempt a
    stack,   \* stack[a]: the do_draw activations of attempt a, innermost last
    flow,    \* flow[a]: what is being handed to the innermost activation
    trace    \* trace[a]: the observable events of attempt a, in order

vars == <<heap, ret, root, data, stack, flow, trace>>

----------------------------------------------------------------------------
(* Bounds of the model *)

MaxBuf == 3        \* longest entropy buffer of a single attempt
MaxConcBuf == 2    \* longest entropy buffer of each of two concurrent attempts
MaxObjs == 2       \* construction operations allowed to allocate
MaxTrace == 48     \* events kept per attempt

Attempts == {1, 2}
Bit == {0, 1}

----------------------------------------------------------------------------
(* Strategy objects *)

Obj(kind, elems, mapped, pack, filtered, cond, value) ==
    [kind |-> kind, element_strategies |-> elems, mapped_strategy |-> mapped,
     pack |-> pack, filtered_strategy |-> filtered, condition |-> cond,
     value |-> value]

\* Leaf strategies the combinators are applied to.
BaseStrategy == Obj("SearchStrategy", <<>>, 0, "", 0, "", 0)
JustOne == Obj("Just", <<>>, 0, "", 0, "", 1)
BitStrategy == Obj("Bit", <<>>, 0, "", 0, "", 0)
OnceStrategy == Obj("Once", <<>>, 0, "", 0, "", 0)

Leaves == <<JustOne, BitStrategy, OnceStrategy, BaseStrategy>>

\* The functions handed to map and the predicates handed to filter.
Packs == {"succ", "div"}
Conditions == {"eq1", "eq2", "divides"}

\* An operand of |: a strategy (by identity) or some other Python value.
StrategyOperand(id) == [strategy |-> TRUE, ref |-> id]
OtherOperand(v) == [strategy |-> FALSE, ref |-> v]
NonStrategies == {OtherOperand(7)}

Ok(h, id) == [heap |-> h, kind |-> "ok", msg |-> "", id |-> id]
ValueError(h, msg) == [heap |-> h, kind |-> "ValueError", msg |-> msg, id |-> 0]

\* OneOfStrategy.__init__
OneOfStrategy_init_lax(h, strategies) ==
    IF Len(strategies) < 1
    THEN ValueError(h, "Need at least 2 strategies to choose amongst")
    ELSE Ok(Append(h, Obj("OneOfStrategy", strategies, 0, "", 0, "", 0)), Len(h) + 1)

OneOfStrategy_init(h, strategies) ==
    IF Len(strategies) <= 1
    THEN ValueError(h, "Need at least 2 strategies to choose amongst")
    ELSE Ok(Append(h, Obj("OneOfStrategy", strategies, 0, "", 0, "", 0)), Len(h) + 1)

\* one_of_strategies
one_of_strategies_always_wrap(h, xs) ==
    IF xs = <<>>
    THEN ValueError(h, "Cannot join an empty list of strategies")
    ELSE OneOfStrategy_init(h, xs)

one_of_strategies(h, xs) ==
    IF xs = <<>>
    THEN ValueError(h, "Cannot join an empty list of strategies")
    ELSE IF Len(xs) = 1
    THEN Ok(h, xs[1])
    ELSE OneOfStrategy_init(h, xs)

\* SearchStrategy.map
SearchStrategy_map(h, self, pack) ==
    Ok(Append(h, Obj("MappedSearchStrategy", <<>>, self, pack, 0, "", 0)), Len(h) + 1)

\* SearchStrategy.filter
SearchStrategy_filter(h, self, condition) ==
    Ok(Append(h, Obj("FilteredStrategy", <<>>, 0, "", self, condition, 0)), Len(h) + 1)

\* SearchStrategy.__or__
SearchStrategy_or_unchecked(h, self, other) ==
    one_of_strategies(h, <<self, other.ref>>)

SearchStrategy_or(h, self, other) ==
    IF ~other.strategy
    THEN ValueError(h, "Cannot | a SearchStrategy with other")
    ELSE one_of_strategies(h, <<self, other.ref>>)

----------------------------------------------------------------------------
(* Construction operations as actions *)

Ids(h) == 1..Len(h)

NoCall == [op |-> "none", args |-> <<>>, kind |-> "none", msg |-> "",
           id |-> 0, before |-> 0]

Called(op, args, r, before) ==
    [op |-> op, args |-> args, kind |-> r.kind, msg |-> r.msg,
     id |-> r.id, before |-> before]

\* The sequences handed to the union constructors: the empty one, the single
\* ones, every pair, and the runs of three consecutive objects.
StrategySeqs(h) ==
    UNION {[1..n -> Ids(h)] : n \in 0..2}
        \cup {<<i, i + 1, i + 2>> : i \in 1..(Len(h) - 2)}

Operands(xs) == [i \in 1..Len(xs) |-> StrategyOperand(xs[i])]

\* The objects construction starts from: a leaf and a mapped strategy over it.
BuildLeaves == SearchStrategy_map(<<JustOne>>, 1, "succ").heap

Construct(op, args, r) ==
    /\ Len(r.heap) <= Len(BuildLeaves) + MaxObjs
    /\ heap' = r.heap
    /\ ret' = Called(op, args, r, Len(heap))
    /\ UNCHANGED <<root, data, stack, flow, trace>>

CallOr ==
    \E self \in Ids(heap),
       other \in {StrategyOperand(i) : i \in Ids(heap)} \cup NonStrategies :
        Construct("or", <<StrategyOperand(self), other>>,
                  SearchStrategy_or(heap, self, other))

CallOneOfStrategies ==
    \E xs \in StrategySeqs(heap) :
        Construct("one_of_strategies", Operands(xs), one_of_strategies(heap, xs))

CallOneOfStrategy ==
    \E xs \in StrategySeqs(heap) :
        Construct("OneOfStrategy", Operands(xs), OneOfStrategy_init(heap, xs))

NoData == [buffer |-> <<>>, index |-> 0]
NoFlow == [kind |-> "none", v |-> 0]

InitBuild ==
    /\ heap = BuildLeaves
    /\ ret = NoCall
    /\ root = [a \in Attempts |-> 0]
    /\ data = [a \in Attempts |-> NoData]
    /\ stack = [a \in Attempts |-> <<>>]
    /\ flow = [a \in Attempts |-> NoFlow]
    /\ trace = [a \in Attempts |-> <<>>]

NextBuild ==
    \/ CallOr
    \/ CallOneOfStrategies
    \/ CallOneOfStrategy

SpecBuild == InitBuild /\ [][NextBuild]_vars

----------------------------------------------------------------------------
(* The entropy source, values and signals *)

Val(v) == [kind |-> "value", v |-> v]
Sig(name) == [kind |-> name, v |-> 0]
Calling == [kind |-> "call", v |-> 0]

Signals == {"StopTest", "UnsatisfiedAssumption", "NotImplementedError",
            "ZeroDivisionError"}

IsSignal(out) == out.kind \in Signals

Buffers(n) == UNION {[1..k -> Bit] : k \in 0..n}

Consume(d, n) == [d EXCEPT !.index = @ + n]

RECURSIVE BitLength(_)
BitLength(g) == IF g = 0 THEN 0 ELSE 1 + BitLength(g \div 2)

\* The number written in units from+1 .. from+n of the buffer.
RECURSIVE UnitsValue(_, _, _)
UnitsValue(buffer, from, n) ==
    IF n = 0 THEN 0 ELSE 2 * UnitsValue(buffer, from, n - 1) + buffer[from + n]

\* integer_range(data, lower, upper): an integer of lower..upper chosen by the
\* entropy read; reading past the end of the buffer aborts the attempt.
RECURSIVE integer_range(_, _, _)
integer_range(d, lower, upper) ==
    LET gap == upper - lower
        bits == BitLength(gap)
    IN  IF gap = 0 THEN [out |-> Val(lower), data |-> d]
        ELSE IF d.index + bits > Len(d.buffer)
        THEN [out |-> Sig("StopTest"), data |-> d]
        ELSE LET probe == UnitsValue(d.buffer, d.index, bits)
             IN  IF probe > gap
                 THEN integer_range(Consume(d, bits), lower, upper)
                 ELSE [out |-> Val(lower + probe), data |-> Consume(d, bits)]

\* assume(condition)
assume(condition) ==
    IF condition THEN Val(1) ELSE Sig("UnsatisfiedAssumption")

\* The pack functions: lambda x: x + 1 and lambda x: 2 // x.
ApplyPack(pack, v) ==
    IF pack = "succ" THEN Val(v + 1)
    ELSE IF v = 0 THEN Sig("ZeroDivisionError") ELSE Val(2 \div v)

\* The conditions: x == 1, x == 2 and lambda x: 2 % x == 0; 1 is true, 0 false.
TestCondition(condition, v) ==
    IF condition = "eq1" THEN Val(IF v = 1 THEN 1 ELSE 0)
    ELSE IF condition = "eq2" THEN Val(IF v = 2 THEN 1 ELSE 0)
    ELSE IF v = 0 THEN Sig("ZeroDivisionError")
    ELSE Val(IF 2 % v = 0 THEN 1 ELSE 0)

\* SearchStrategy.do_draw, the base class: not implemented.
SearchStrategy_do_draw(d) == [out |-> Sig("NotImplementedError"), data |-> d]

\* do_draw of the leaf strategies: a constant, one unit of entropy, and a
\* strategy that reads one unit from a fresh source and nothing afterwards.
DrawUnit(d) ==
    IF d.index + 1 > Len(d.buffer)
    THEN [out |-> Sig("StopTest"), data |-> d]
    ELSE [out |-> Val(d.buffer[d.index + 1]), data |-> Consume(d, 1)]

LeafDraw(o, d) ==
    IF o.kind = "Just" THEN [out |-> Val(o.value), data |-> d]
    ELSE IF o.kind = "Bit" THEN DrawUnit(d)
    ELSE IF o.kind = "Once"
    THEN IF d.index = 0 THEN DrawUnit(d) ELSE [out |-> Val(0), data |-> d]
    ELSE SearchStrategy_do_draw(d)

Combinators == {"OneOfStrategy", "MappedSearchStrategy", "FilteredStrategy"}

----------------------------------------------------------------------------
(* do_draw, one step at a time *)

\* An activation of do_draw: start_index is FilteredStrategy's local variable;
\* called_at observes the entropy index at which the callee was entered.
Frame(self) == [self |-> self, pc |-> "enter", start_index |-> -1, called_at |-> -1]

Event(ev, depth, self, arg, sig) ==
    [ev |-> ev, depth |-> depth, self |-> self, arg |-> arg, sig |-> sig]

\* The event of a do_draw ending with out, a signal being its own or passed on.
Ending(depth, self, out, own) ==
    IF out.kind = "value" THEN Event("return", depth, self, out.v, "")
    ELSE Event(IF own THEN "raise" ELSE "propagate", depth, self, 0, out.kind)

Logged(t, evs) ==
    LET all == t \o evs
    IN  IF Len(all) <= MaxTrace THEN all ELSE SubSeq(all, 1, MaxTrace)

Depth(a) == Len(stack[a])
Top(a) == stack[a][Depth(a)]
Pop(a) == SubSeq(stack[a], 1, Depth(a) - 1)
Running(a, kinds, pc) ==
    /\ stack[a] # <<>>
    /\ heap[Top(a).self].kind \in kinds
    /\ Top(a).pc = pc

\* One step of attempt a: the strategy objects, and the attempt's new stack,
\* entropy source, flow and events.
Step(a, h, st, d, fl, evs) ==
    /\ heap' = h
    /\ stack' = [stack EXCEPT ![a] = st]
    /\ data' = [data EXCEPT ![a] = d]
    /\ flow' = [flow EXCEPT ![a] = fl]
    /\ trace' = [trace EXCEPT ![a] = Logged(@, evs)]
    /\ UNCHANGED <<ret, root>>

\* Entering a callee's do_draw, the caller left waiting for it.
Enter(a, h, fr, callee, d, evs) ==
    Step(a, h,
         Append(Append(Pop(a), [fr EXCEPT !.pc = "wait", !.called_at = d.index]),
                Frame(callee)),
         d, Calling, evs \o <<Event("call", Depth(a) + 1, callee, 0, "")>>)

\* A leaf strategy's do_draw.
Leaf_do_draw(a) ==
    /\ Running(a, {"Just", "Bit", "Once", "SearchStrategy"}, "enter")
    /\ LET self == Top(a).self
           r == LeafDraw(heap[self], data[a])
       IN  Step(a, heap, Pop(a), r.data, r.out, <<Ending(Depth(a), self, r.out, TRUE)>>)

\* OneOfStrategy.do_draw: integer_range(data, 0, len(self.element_strategies) - 1)
\* selects the element strategy handed to data.draw.
OneOfChoice(o, d) == integer_range(d, 0, Len(o.element_strategies) - 1)

OneOfElement_next(o, i) == o.element_strategies[((i + 1) % Len(o.element_strategies)) + 1]

OneOfElement(o, i) == o.element_strategies[i + 1]

OneOfStrategy_do_draw(a) ==
    /\ Running(a, {"OneOfStrategy"}, "enter")
    /\ LET self == Top(a).self
           r == OneOfChoice(heap[self], data[a])
       IN  IF IsSignal(r.out)
           THEN Step(a, heap, Pop(a), r.data, r.out,
                     <<Event("range", Depth(a), self, -1, r.out.kind),
                       Ending(Depth(a), self, r.out, FALSE)>>)
           ELSE Enter(a, heap, Top(a), OneOfElement(heap[self], r.out.v), r.data,
                      <<Event("range", Depth(a), self, r.out.v, "")>>)

\* OneOfStrategy.do_draw returns what data.draw gave it.
OneOfResult_default(out) == IF IsSignal(out) THEN Val(0) ELSE out

OneOfResult(out) == out

OneOfStrategy_return(a) ==
    /\ Running(a, {"OneOfStrategy"}, "wait")
    /\ LET out == OneOfResult(flow[a])
       IN  Step(a, heap, Pop(a), data[a], out,
                <<Ending(Depth(a), Top(a).self, out, FALSE)>>)

\* MappedSearchStrategy.do_draw: self.mapped_strategy.do_draw(data) ...
MappedSearchStrategy_do_draw(a) ==
    /\ Running(a, {"MappedSearchStrategy"}, "enter")
    /\ Enter(a, heap, Top(a), heap[Top(a).self].mapped_strategy, data[a], <<>>)

\* ... and self.pack of its value.
MappedResult_unpacked(o, out) == out

MappedResult(o, out) ==
    IF out.kind = "value" THEN ApplyPack(o.pack, out.v) ELSE out

MappedSearchStrategy_return(a) ==
    /\ Running(a, {"MappedSearchStrategy"}, "wait")
    /\ LET self == Top(a).self
           out == MappedResult(heap[self], flow[a])
       IN  Step(a, heap, Pop(a), data[a], out,
                (IF flow[a].kind = "value"
                 THEN <<Event("apply", Depth(a), self, flow[a].v,
                              IF IsSignal(out) THEN out.kind ELSE "")>>
                 ELSE <<>>) \o <<Ending(Depth(a), self, out, FALSE)>>)

\* FilteredStrategy.do_draw, the top of the loop: start_index = data.index is a
\* local variable, the strategy itself is left as it was ...
StartIndex_first(fr, d) == IF fr.start_index = -1 THEN d.index ELSE fr.start_index

StartIndex(fr, d) == d.index

FilteredSelf_attribute(o, d) == [o EXCEPT !.value = d.index + 1]

FilteredSelf(o, d) == o

\* ... then data.draw(self.filtered_strategy).
FilteredStrategy_do_draw(a) ==
    /\ Running(a, {"FilteredStrategy"}, "enter")
    /\ LET self == Top(a).self
       IN  Enter(a, [heap EXCEPT ![self] = FilteredSelf(@, data[a])],
                 [Top(a) EXCEPT !.start_index = StartIndex(Top(a), data[a])],
                 heap[self].filtered_strategy, data[a], <<>>)

\* data.index > start_index
Progressed_or_equal(d, start_index) == d.index >= start_index

Progressed(d, start_index) == d.index > start_index

\* The rest of the loop body: return the value if the condition holds,
\* otherwise assume(data.index > start_index) and go round again.
FilteredResult_progress_first(o, out, start_index, d) ==
    IF out.kind # "value" THEN [next |-> "exit", out |-> out, own |-> FALSE]
    ELSE LET p == assume(Progressed(d, start_index))
             c == TestCondition(o.condition, out.v)
         IN  IF IsSignal(p) THEN [next |-> "exit", out |-> p, own |-> TRUE]
             ELSE IF IsSignal(c) THEN [next |-> "exit", out |-> c, own |-> FALSE]
             ELSE IF c.v = 1 THEN [next |-> "exit", out |-> out, own |-> FALSE]
             ELSE [next |-> "loop", out |-> Calling, own |-> FALSE]

FilteredResult(o, out, start_index, d) ==
    IF out.kind # "value" THEN [next |-> "exit", out |-> out, own |-> FALSE]
    ELSE LET c == TestCondition(o.condition, out.v)
         IN  IF IsSignal(c) THEN [next |-> "exit", out |-> c, own |-> FALSE]
             ELSE IF c.v = 1 THEN [next |-> "exit", out |-> out, own |-> FALSE]
             ELSE LET p == assume(Progressed(d, start_index))
                  IN  IF IsSignal(p) THEN [next |-> "exit", out |-> p, own |-> TRUE]
                      ELSE [next |-> "loop", out |-> Calling, own |-> FALSE]

FilteredStrategy_check(a) ==
    /\ Running(a, {"FilteredStrategy"}, "wait")
    /\ LET self == Top(a).self
           o == heap[self]
           r == FilteredResult(o, flow[a], Top(a).start_index, data[a])
           c == TestCondition(o.condition, flow[a].v)
           tested == IF flow[a].kind = "value"
                     THEN <<Event("test", Depth(a), self, flow[a].v,
                                  IF IsSignal(c) THEN c.kind ELSE "")>>
                     ELSE <<>>
       IN  IF r.next = "loop"
           THEN Step(a, heap, Append(Pop(a), [Top(a) EXCEPT !.pc = "enter"]), data[a],
                     Calling, tested \o <<Event("retry", Depth(a), self, 0, "")>>)
           ELSE Step(a, heap, Pop(a), data[a], r.out,
                     tested \o <<Ending(Depth(a), self, r.out, r.own)>>)

Generate(a) ==
    \/ Leaf_do_draw(a)
    \/ OneOfStrategy_do_draw(a)
    \/ OneOfStrategy_return(a)
    \/ MappedSearchStrategy_do_draw(a)
    \/ MappedSearchStrategy_return(a)
    \/ FilteredStrategy_do_draw(a)
    \/ FilteredStrategy_check(a)

Done(a) == root[a] # 0 /\ stack[a] = <<>>

\* The same do_draw, run to its end in one go: the outcome and the entropy
\* source it leaves.
RECURSIVE Run(_, _, _)
Run(h, s, d) ==
    LET o == h[s]
    IN  IF o.kind = "OneOfStrategy"
        THEN LET r == integer_range(d, 0, Len(o.element_strategies) - 1)
             IN  IF IsSignal(r.out) THEN r
                 ELSE Run(h, o.element_strategies[r.out.v + 1], r.data)
        ELSE IF o.kind = "MappedSearchStrategy"
        THEN LET r == Run(h, o.mapped_strategy, d)
             IN  IF IsSignal(r.out) THEN r
                 ELSE [out |-> ApplyPack(o.pack, r.out.v), data |-> r.data]
        ELSE IF o.kind = "FilteredStrategy"
        THEN LET r == Run(h, o.filtered_strategy, d)
                 c == TestCondition(o.condition, r.out.v)
             IN  IF IsSignal(r.out) THEN r
                 ELSE IF IsSignal(c) THEN [out |-> c, data |-> r.data]
                 ELSE IF c.v = 1 THEN r
                 ELSE IF r.data.index > d.index THEN Run(h, s, r.data)
                 ELSE [out |-> Sig("UnsatisfiedAssumption"), data |-> r.data]
        ELSE LeafDraw(o, d)

----------------------------------------------------------------------------
(* Generation attempts *)

\* The strategies generated from: every combinator built by one construction
\* over the leaves, and every combinator built by one more over such a one.
Built(results) == {r.heap : r \in {x \in results : x.kind = "ok"}}

OverLeaves ==
    Built({SearchStrategy_map(Leaves, s, p) : s \in Ids(Leaves), p \in Packs}
          \cup {SearchStrategy_filter(Leaves, s, c) : s \in Ids(Leaves), c \in Conditions}
          \cup {SearchStrategy_or(Leaves, s, StrategyOperand(t)) :
                    s \in Ids(Leaves), t \in Ids(Leaves)}
          \cup {one_of_strategies(Leaves, xs) :
                    xs \in {<<i, i + 1, i + 2>> : i \in 1..(Len(Leaves) - 2)}})

Over(h) ==
    LET top == Len(h)
    IN  Built({SearchStrategy_map(h, top, p) : p \in Packs}
              \cup {SearchStrategy_filter(h, top, c) : c \in Conditions}
              \cup {SearchStrategy_or(h, top, StrategyOperand(t)) : t \in Ids(h)}
              \cup {SearchStrategy_or(h, t, StrategyOperand(top)) : t \in Ids(h)})

DrawHeaps == OverLeaves \cup UNION {Over(h) : h \in OverLeaves}

Start(h, active, bufs) ==
    /\ heap = h
    /\ ret = NoCall
    /\ root = [a \in Attempts |-> IF a \in active THEN Len(h) ELSE 0]
    /\ data = [a \in Attempts |-> [buffer |-> bufs[a], index |-> 0]]
    /\ stack = [a \in Attempts |-> IF a \in active THEN <<Frame(Len(h))>> ELSE <<>>]
    /\ flow = [a \in Attempts |-> IF a \in active THEN Calling ELSE NoFlow]
    /\ trace = [a \in Attempts |->
                   IF a \in active THEN <<Event("call", 1, Len(h), 0, "")>> ELSE <<>>]

\* One attempt, on any buffer of at most MaxBuf units.
InitDraw ==
    \E h \in DrawHeaps, b \in Buffers(MaxBuf) :
        Start(h, {1}, [a \in Attempts |-> IF a = 1 THEN b ELSE <<>>])

NextDraw == Generate(1)

SpecDraw == InitDraw /\ [][NextDraw]_vars

\* One attempt on a strategy that holds a FilteredStrategy; the attempt runs
\* to its end, do_draw being synchronous code.
HasFilter(h) == \E id \in Ids(h) : h[id].kind = "FilteredStrategy"

InitFilter ==
    \E h \in {g \in DrawHeaps : HasFilter(g)}, b \in Buffers(MaxBuf) :
        Start(h, {1}, [a \in Attempts |-> IF a = 1 THEN b ELSE <<>>])

SpecFilterFair == InitFilter /\ [][NextDraw]_vars /\ WF_vars(NextDraw)

\* Two attempts sharing one strategy (a combinator over the leaves, or a filter
\* over a union of them), each with an entropy source of its own, their steps
\* interleaved in every order.
SharedHeaps ==
    OverLeaves
        \cup UNION {Built({SearchStrategy_filter(h, Len(h), c) : c \in Conditions}) :
                        h \in {g \in OverLeaves : g[Len(g)].kind = "OneOfStrategy"}}

InitShared ==
    \E h \in SharedHeaps, bufs \in [Attempts -> Buffers(MaxConcBuf)] :
        Start(h, Attempts, bufs)

NextShared == \E a \in Attempts : Generate(a)

SpecShared == InitShared /\ [][NextShared]_vars

----------------------------------------------------------------------------
(* Construction claims, under SpecBuild *)

Refs(args) == [i \in 1..Len(args) |-> args[i].ref]
IsUnionOf(id, xs) ==
    /\ id = Len(heap)
    /\ heap[id].kind = "OneOfStrategy"
    /\ heap[id].element_strategies = xs
Allocated == Len(heap) - ret.before

\* C4: one_of_strategies fails on the empty sequence and constructs nothing,
\* returns the very object of a one-element sequence, and for two or more
\* returns a new OneOfStrategy holding exactly the given strategies in order.
C4_OneOfStrategies ==
    ret.op = "one_of_strategies" =>
        LET n == Len(ret.args)
        IN  /\ n = 0 => /\ ret.kind = "ValueError"
                        /\ ret.msg = "Cannot join an empty list of strategies"
                        /\ Allocated = 0
            /\ n = 1 => /\ ret.kind = "ok"
                        /\ ret.id = ret.args[1].ref
                        /\ Allocated = 0
            /\ n >= 2 => /\ ret.kind = "ok"
                         /\ Allocated = 1
                         /\ IsUnionOf(ret.id, Refs(ret.args))
                         /\ Len(heap[ret.id].element_strategies) = n

C4_Witness ==
    /\ ret.op = "one_of_strategies"
    /\ Len(ret.args) = 1
    /\ ret.kind = "ok"
    /\ heap[ret.id].kind = "OneOfStrategy"
    /\ Len(heap[ret.id].element_strategies) = 3

\* C6: self | other with other not a strategy fails at once with ValueError and
\* constructs nothing; with other a strategy it gives one_of_strategies of
\* (self, other): a OneOfStrategy of exactly self then other.
C6_Or ==
    ret.op = "or" =>
        LET self == ret.args[1]
            other == ret.args[2]
        IN  IF other.strategy
            THEN /\ ret.kind = "ok"
                 /\ Allocated = 1
                 /\ IsUnionOf(ret.id, <<self.ref, other.ref>>)
            ELSE /\ ret.kind = "ValueError"
                 /\ ret.msg = "Cannot | a SearchStrategy with other"
                 /\ ret.id = 0
                 /\ Allocated = 0
                 /\ \A a \in Attempts : data[a].index = 0 /\ stack[a] = <<>>

C6_Witness ==
    /\ ret.op = "or"
    /\ ~ret.args[2].strategy
    /\ ret.kind = "ValueError"
    /\ Len(heap) > Len(BuildLeaves)

\* C8: every OneOfStrategy that exists holds at least two strategies, and
\* constructing one directly from fewer fails and yields no object.
C8_UnionArity ==
    /\ \A id \in Ids(heap) :
           heap[id].kind = "OneOfStrategy" => Len(heap[id].element_strategies) >= 2
    /\ (ret.op = "OneOfStrategy" /\ Len(ret.args) <= 1) =>
           /\ ret.kind = "ValueError"
           /\ ret.msg = "Need at least 2 strategies to choose amongst"
           /\ Allocated = 0

C8_Witness ==
    /\ ret.op = "OneOfStrategy"
    /\ Len(ret.args) = 1
    /\ ret.kind = "ValueError"
    /\ Cardinality({id \in Ids(heap) : heap[id].kind = "OneOfStrategy"}) = MaxObjs

----------------------------------------------------------------------------
(* Generation claims, about attempt 1 under SpecDraw and SpecFilterFair *)

Root == heap[root[1]]
Fresh == [buffer |-> data[1].buffer, index |-> 0]
Events(ev, depth) ==
    {k \in 1..Len(trace[1]) : trace[1][k].ev = ev /\ trace[1][k].depth = depth}

FilterAt(k) ==
    /\ k <= Depth(1)
    /\ heap[stack[1][k].self].kind = "FilteredStrategy"
Checking ==
    /\ Running(1, {"FilteredStrategy"}, "wait")
    /\ flow[1].kind = "value"
Verdict == TestCondition(heap[Top(1).self].condition, flow[1].v)
Rejected == Checking /\ Verdict = Val(0)
Accepted == Checking /\ Verdict = Val(1)
Retries == stack'[1] = Append(Pop(1), [Top(1) EXCEPT !.pc = "enter"])
Ends(out) == stack'[1] = Pop(1) /\ flow'[1] = out /\ data' = data
FilterOverJust ==
    /\ Root.kind = "FilteredStrategy"
    /\ heap[Root.filtered_strategy].kind = "Just"
JustVerdict == TestCondition(Root.condition, heap[Root.filtered_strategy].value)

Depths == 1..3

\* C1: every call of FilteredStrategy.do_draw ends: its activation leaves the
\* stack, by a value, by an abandoned attempt or by the entropy source's abort.
C1_FilterEnds == \A k \in Depths : FilterAt(k) ~> (Depth(1) < k)

C1_Witness ==
    /\ Done(1)
    /\ Root.kind = "FilteredStrategy"
    /\ flow[1] = Sig("StopTest")
    /\ Cardinality(Events("retry", 1)) >= 2

\* The parts of C2: the recorded start, the step after a rejection, the constant.
C2_MeasuresIteration ==
    \A k \in 1..Depth(1) :
        (FilterAt(k) /\ stack[1][k].pc = "wait") =>
            stack[1][k].start_index = stack[1][k].called_at

C2_RejectedStep ==
    Rejected =>
        IF data[1].index > Top(1).called_at
        THEN Retries /\ flow'[1] = Calling /\ data' = data
        ELSE Ends(Sig("UnsatisfiedAssumption"))

C2_ConstantRejected ==
    (Done(1) /\ FilterOverJust /\ JustVerdict = Val(0)) =>
        /\ flow[1] = Sig("UnsatisfiedAssumption")
        /\ Cardinality(Events("call", 2)) = 1

\* C2: a rejected draw is measured against the entropy index at which that very
\* iteration began: without a strict advance the attempt is abandoned there and
\* then, with one the loop goes round again and records a fresh start; a filter
\* over a constant its condition rejects abandons after exactly one draw.
C2_FilterProgress ==
    /\ [](C2_MeasuresIteration /\ C2_ConstantRejected)
    /\ [][C2_RejectedStep]_vars

C2_Witness ==
    /\ Done(1)
    /\ Root.kind = "FilteredStrategy"
    /\ heap[Root.filtered_strategy].kind = "Once"
    /\ flow[1] = Sig("UnsatisfiedAssumption")
    /\ Cardinality(Events("retry", 1)) = 1
    /\ data[1].index = 1

\* The parts of C3: the step after an acceptance, a return, the constant.
C3_AcceptedStep == Accepted => Ends(flow[1])

C3_ReturnStep ==
    (Running(1, {"FilteredStrategy"}, "wait") /\ stack'[1] = Pop(1)
        /\ flow'[1].kind = "value") => Accepted /\ flow'[1] = flow[1]

C3_ConstantAccepted ==
    (Done(1) /\ FilterOverJust /\ JustVerdict = Val(1)) =>
        /\ flow[1] = Val(heap[Root.filtered_strategy].value)
        /\ data[1].index = 0
        /\ Cardinality(Events("call", 2)) = 1
        /\ Events("retry", 1) = {}

\* C3: FilteredStrategy.do_draw returns a value exactly when the condition holds
\* of the value just drawn, returns that value at once whether or not the draw
\* consumed entropy, and so returns a constant its condition accepts after one
\* draw, no retry and no abandonment.
C3_FilterReturns ==
    /\ []C3_ConstantAccepted
    /\ [][C3_AcceptedStep /\ C3_ReturnStep]_vars

C3_Witness ==
    /\ Done(1)
    /\ FilterOverJust
    /\ Root.condition = "eq1"
    /\ flow[1] = Val(1)
    /\ data[1].index = 0

\* C5: MappedSearchStrategy.do_draw gives pack of the value the mapped strategy
\* alone draws from the same entropy and leaves the entropy source as that draw
\* leaves it; when the mapped strategy ends in a signal, so does the mapped
\* draw, and pack is not applied.
C5_MapPurity ==
    (Done(1) /\ Root.kind = "MappedSearchStrategy") =>
        LET alone == Run(heap, Root.mapped_strategy, Fresh)
            applied == Events("apply", 1)
        IN  /\ data[1] = alone.data
            /\ IF alone.out.kind = "value"
               THEN /\ flow[1] = ApplyPack(Root.pack, alone.out.v)
                    /\ Cardinality(applied) = 1
                    /\ \A k \in applied : trace[1][k].arg = alone.out.v
               ELSE /\ flow[1] = alone.out
                    /\ applied = {}

C5_Witness ==
    /\ Done(1)
    /\ Root.kind = "MappedSearchStrategy"
    /\ Root.pack = "succ"
    /\ heap[Root.mapped_strategy].kind = "FilteredStrategy"
    /\ flow[1] = Val(2)
    /\ data[1].index = 3

\* The parts of C7: a signal in flight, and where a signal may begin.
C7_PassedOn ==
    (IsSignal(flow[1]) /\ stack[1] # <<>>) => Ends(flow[1])

C7_Origin ==
    (/\ stack[1] # <<>>
     /\ ~IsSignal(flow[1])
     /\ IsSignal(flow'[1])
     /\ heap[Top(1).self].kind \in Combinators) =>
        LET o == heap[Top(1).self]
        IN  \/ /\ o.kind = "OneOfStrategy"
               /\ Top(1).pc = "enter"
               /\ flow'[1] = Sig("StopTest")
               /\ integer_range(data[1], 0, Len(o.element_strategies) - 1).out = flow'[1]
            \/ /\ o.kind = "MappedSearchStrategy"
               /\ flow[1].kind = "value"
               /\ flow'[1] = ApplyPack(o.pack, flow[1].v)
            \/ /\ Checking
               /\ flow'[1] = Verdict
            \/ /\ Rejected
               /\ data[1].index <= Top(1).called_at
               /\ flow'[1] = Sig("UnsatisfiedAssumption")

\* C7: a signal raised below a combinator leaves it unchanged and at once, with
\* no further draw; a combinator raises no signal of its own except
\* FilteredStrategy's abandonment of a rejected draw that advanced no entropy.
C7_Propagation == [][C7_PassedOn /\ C7_Origin]_vars

C7_Witness ==
    /\ Depth(1) = 2
    /\ flow[1] = Sig("NotImplementedError")
    /\ heap[stack[1][1].self].kind = "FilteredStrategy"
    /\ heap[stack[1][2].self].kind = "OneOfStrategy"
    /\ data[1].index > 0

\* C10: OneOfStrategy.do_draw calls integer_range(data, 0, n - 1) once, first;
\* the index it gets lies in 0..n-1; it then draws once, from the element
\* strategy at that index and no other, and ends as that draw ended. Every
\* index is the choice of some entropy.
C10_OneOfDraw ==
    Root.kind = "OneOfStrategy" =>
        LET t == trace[1]
            n == Len(Root.element_strategies)
            choice == integer_range(Fresh, 0, n - 1).out
        IN  /\ Len(t) < MaxTrace
            /\ Events("range", 1) \subseteq {2}
            /\ Events("call", 2) \subseteq {3}
            /\ Len(t) >= 2 =>
                   /\ 2 \in Events("range", 1)
                   /\ t[2].self = root[1]
                   /\ IF IsSignal(choice)
                      THEN t[2].sig = choice.kind /\ Events("call", 2) = {}
                      ELSE /\ t[2].sig = "" /\ t[2].arg = choice.v
                           /\ choice.v \in 0..(n - 1)
                           /\ Len(t) >= 3
                           /\ t[3] = Event("call", 2, Root.element_strategies[choice.v + 1], 0, "")
            /\ Done(1) =>
                   LET last == t[Len(t)]
                       prev == t[Len(t) - 1]
                   IN  /\ last.depth = 1 /\ last.self = root[1]
                       /\ IF IsSignal(choice)
                          THEN flow[1] = choice /\ Len(t) = 3
                          ELSE /\ prev.depth = 2
                               /\ prev.self = Root.element_strategies[choice.v + 1]
                               /\ prev.ev \in {"return", "raise", "propagate"}
                               /\ last = Ending(1, root[1], flow[1], FALSE)
                               /\ flow[1] = IF prev.ev = "return"
                                            THEN Val(prev.arg) ELSE Sig(prev.sig)
            /\ \A i \in 0..(n - 1) :
                   \E b \in Buffers(MaxBuf) :
                       OneOfChoice(Root, [buffer |-> b, index |-> 0]).out = Val(i)

C10_Witness ==
    /\ Done(1)
    /\ Root.kind = "OneOfStrategy"
    /\ Len(Root.element_strategies) = 3
    /\ 2 \in Events("range", 1)
    /\ trace[1][2].arg = 2
    /\ flow[1].kind = "value"

----------------------------------------------------------------------------
(* The sharing claim, under SpecShared *)

\* The outcome part of C9.
C9_AsAlone ==
    \A a \in Attempts :
        Done(a) =>
            [out |-> flow[a], data |-> data[a]]
                = Run(heap, root[a], [buffer |-> data[a].buffer, index |-> 0])

\* C9: do_draw leaves every strategy object as it was, and however the steps of
\* two attempts on one shared strategy interleave, each ends with the outcome
\* and the entropy index it reaches when run alone on its own entropy.
C9_Shared == []C9_AsAlone /\ [][heap' = heap]_vars

C9_Witness ==
    /\ Done(1)
    /\ flow[1].kind = "value"
    /\ data[1].index > 0
    /\ Depth(2) >= 2
    /\ data[2].index > 0
    /\ data[2].buffer # data[1].buffer
    /\ heap[root[1]].kind = "FilteredStrategy"

====
